---- MODULE Spec2Model ----
(***************************************************************************)
(* NexusCodex: the document-processing job queue and worker pipeline       *)
(* (doc-api queue.service, doc-processor queue.service and                 *)
(* process-document.worker) and the realtime collaboration layer           *)
(* (doc-websocket session.service, redis.service, handlers and server).    *)
(*                                                                         *)
(* The specifications share the variables: SpecWorker and SpecWorkerLog    *)
(* move only the queue and pipeline state (the latter with log-store       *)
(* outages); SpecGateway, SpecRooms and SpecHeartbeat only the session     *)
(* store and the gateway.                                                  *)
(***************************************************************************)
EXTENDS Integers, Sequences, FiniteSets, TLC

VARIABLES
    \* ---- document store (prisma.document), search index, structured data
    docStatus,      \* document id -> ocrStatus
    docHash,        \* document id -> contentHash column (NoHash when null)
    docDupOf,       \* document id -> metadata.duplicateOf (NoDoc when absent)
    indexed,        \* document ids present in the search index
    indexSubmits,   \* document id -> number of elasticService.indexDocument calls
    structuredRows, \* document id -> number of structuredData rows
    \* ---- BullMQ queue
    jobs,           \* job id -> [state, doc, attemptsMade, attempts]
    waitq,          \* the wait list, oldest first
    nextJob,        \* next job id to hand out
    resets,         \* documents whose route handler still has to write ocrStatus 'pending'
    \* ---- worker slots
    runs,           \* worker slot -> the run of processDocumentWorker in progress
    failures,       \* stage errors raised so far (bounded by MaxFailures)
    docContent,     \* document id -> the bytes stored in the blob store (never changes)
    \* ---- processing log (Redis lists job:logs:<jobId>)
    logUp,          \* the log store accepts appends (FALSE: an append rejects)
    errorLogged,    \* job id -> its log holds an error-level entry
    logList,        \* log key -> the Redis list under it, head first
    appended,       \* job id -> the entries appended since its last clear,
                    \* oldest first (ghost)
    logClock,       \* the clock new Date() reads, in appends made so far
    lastRead,       \* what the latest operation on the log returned, when it
                    \* was a getLogs: [job, entries]
    \* ---- the document table as the deduplication service sees it
    table,          \* document id -> its row (the domain: the rows there are)
    found,          \* the latest findDuplicate call: [hash, exclude, result]
    merged,         \* the latest mergeDuplicates call: [primary, dups, ok]
    mergeCount,     \* mergeDuplicates calls made so far
    \* ---- queue administration
    finishedOn,     \* job id -> job.finishedOn in days since the epoch (0: not
                    \* finished; the pipeline specifications do not read it)
    cleanCount,     \* cleanOldJobs calls made so far
    \* ---- session store (Redis keys session:<id>)
    store,          \* session id -> the stored DocumentSession (NoSession when no key)
    ttl,            \* session id -> ticks left before the key expires (0: no key)
    nextSession,    \* index of the next session id uuidv4 hands out
    \* ---- gateway (DocumentWebSocketServer)
    connState,      \* connection -> "open" | "terminated" | "closed"
    connSession,    \* connection -> ws.sessionId (NoSid when unset)
    connUser,       \* connection -> ws.userId (NoUser when unset)
    clients,        \* session id -> the connection set of the clients map
    hs,             \* the handler invocations suspended at an await
    msgCount,       \* [joins, events, invalid]: inbound messages received so far
    lastSent,       \* what the latest step sent: [type, n], n[c] messages to c
    leftTold,       \* connection c -> the connections already sent session:left
                    \* by c's explicit leave since c last joined (ghost)
    isAlive,        \* connection -> ws.isAlive
    pongDue         \* connection -> its latest ping is unanswered (ghost)

kvars == <<logList, appended, logClock, lastRead>>

cvars == <<table, found, merged, mergeCount>>

\* The services beside the pipeline
qvars == <<finishedOn, cleanCount>>

svars == <<kvars, cvars, qvars>>

lvars == <<logUp, errorLogged, svars>>

wvars == <<docStatus, docHash, docDupOf, indexed, indexSubmits, structuredRows,
           jobs, waitq, nextJob, resets, runs, failures, docContent, lvars>>

hvars == <<isAlive, pongDue>>

gvars == <<store, ttl, nextSession, connState, connSession, connUser, clients,
           hs, msgCount, lastSent, leftTold, hvars>>

vars == <<wvars, gvars>>

----------------------------------------------------------------------------
(* Bounds of the model *)

MaxJobs == 2
MaxFailures == 1

\* Join messages and other session events the gateway receives in a run, and
\* handlers suspended at once.
MaxJoins == 2
MaxEvents == 1
MaxHandlers == 2

Docs == {"d1", "d2"}
NoDoc == "none"
NoHash == <<"null", "">>
NoJob == 0

\* File contents a document can hold: a text PDF, a scanned PDF, a markdown file.
Contents == {"pdfA", "pdfScan", "mdB"}

----------------------------------------------------------------------------
(* Program constants *)

\* env.WORKER_CONCURRENCY, default '2'
WORKER_CONCURRENCY == 2

\* defaultJobOptions.attempts of the doc-processor's Queue instance
ProcessorDefaultAttempts == 3

\* The doc-api Queue instance is built with no defaultJobOptions; BullMQ's Job
\* then carries attempts = 0 (it is never retried).
ApiDefaultAttempts == 0

\* env.SESSION_TTL, the expiry window of a session key, counted in ticks of
\* half a window.
SESSION_TTL == 2

Workers == 1..WORKER_CONCURRENCY
JobIds == 1..MaxJobs

----------------------------------------------------------------------------
(* Pure helpers of the pipeline *)

\* ContentHashService.calculateHash: SHA-256 of the bytes. Deterministic, and
\* collision-free on the contents of the model.
calculateHash(bytes) == <<"sha256", bytes>>

\* document.format of a document holding these bytes
FormatOf(bytes) == IF bytes = "mdB" THEN "markdown" ELSE "pdf"

\* What the extractor returns for these bytes: trimmed length and word count.
\* The text PDF is the shortest text that is not image-based; the scanned PDF
\* is long enough but has too few words.
ExtractedText(bytes) ==
    CASE bytes = "pdfA"    -> [chars |-> 50, words |-> 10]
      [] bytes = "pdfScan" -> [chars |-> 64, words |-> 9]
      [] OTHER             -> [chars |-> 80, words |-> 15]

\* OcrService.isImageBasedPage: trimmed.length < 50 ||
\* trimmed.split(/\s+/).length < 10
isImageBasedPageMutInclusive(text) == text.chars <= 50 \/ text.words <= 10

isImageBasedPage(text) == text.chars < 50 \/ text.words < 10

\* extractionService.extractAll: how many entities (spells, monsters, items)
\* the text of these bytes holds.
EntitiesOf(bytes) == IF bytes = "pdfScan" THEN 0 ELSE 1

\* ContentHashService.findDuplicate: the documents prisma.document.findFirst
\* may return (no orderBy: any matching row), NoDoc when none matches.
findDuplicateMutNoExclude(hash, excludeDocumentId) ==
    LET m == {d \in Docs : docHash[d] = hash}
    IN  IF m = {} THEN {NoDoc} ELSE m

findDuplicate(hash, excludeDocumentId) ==
    LET m == {d \in Docs : docHash[d] = hash /\ d # excludeDocumentId}
    IN  IF m = {} THEN {NoDoc} ELSE m

----------------------------------------------------------------------------
(* The queue (BullMQ) *)

IdleRun == [pc |-> "idle", job |-> NoJob, doc |-> NoDoc, hash |-> NoHash,
            dup |-> NoDoc, needsOCR |-> FALSE, did |-> {}, err |-> "none"]

NoJobRec == [state |-> "none", doc |-> NoDoc, attemptsMade |-> 0, attempts |-> 0]

\* documentQueue.add('process-document', {documentId}) on the doc-api Queue:
\* the job's options are that Queue instance's defaultJobOptions (none).
enqueueDocumentProcessing(documentId) ==
    /\ nextJob <= MaxJobs
    /\ jobs' = [jobs EXCEPT ![nextJob] =
                  [state |-> "waiting", doc |-> documentId, attemptsMade |-> 0,
                   attempts |-> ApiDefaultAttempts]]
    /\ waitq' = Append(waitq, nextJob)
    /\ nextJob' = nextJob + 1

\* The wait list after a worker has leased its head: BullMQ moves the job
\* from wait to active in one atomic step.
WaitAfterLeaseMutKeep(q) == q

WaitAfterLease(q) == Tail(q)

\* BullMQ on a processor that returned: the job is completed.
JobCompleted(j) == [jobs EXCEPT ![j].state = "completed"]

\* BullMQ on a processor that threw: one more attempt made; re-enqueued (after
\* the backoff delay) while attempts remain, else terminally failed.
JobFailedState(made, attempts) == IF made < attempts THEN "waiting" ELSE "failed"

JobFailed(j) ==
    LET made == jobs[j].attemptsMade + 1
    IN  [jobs EXCEPT ![j].attemptsMade = made,
                     ![j].state = JobFailedState(made, jobs[j].attempts)]

WaitAfterFail(j) ==
    IF JobFailedState(jobs[j].attemptsMade + 1, jobs[j].attempts) = "waiting"
    THEN Append(waitq, j) ELSE waitq

----------------------------------------------------------------------------
(* Routes that request processing *)

\* POST /api/documents/:id/process: refuses completed and processing documents,
\* enqueues, then (a later await) writes ocrStatus 'pending'.
ProcessRoute(d) ==
    /\ docStatus[d] \notin {"completed", "processing"}
    /\ enqueueDocumentProcessing(d)
    /\ resets' = [resets EXCEPT ![d] = @ + 1]
    /\ UNCHANGED <<docStatus, docHash, docDupOf, indexed, indexSubmits,
                   structuredRows, runs, failures, docContent, lvars, gvars>>

\* POST /api/admin/documents/:id/reprocess: enqueues whatever the status is,
\* then writes ocrStatus 'pending'.
ReprocessRoute(d) ==
    /\ enqueueDocumentProcessing(d)
    /\ resets' = [resets EXCEPT ![d] = @ + 1]
    /\ UNCHANGED <<docStatus, docHash, docDupOf, indexed, indexSubmits,
                   structuredRows, runs, failures, docContent, lvars, gvars>>

\* The route's prisma.document.update({ocrStatus: 'pending'}) after the enqueue.
RouteReset(d) ==
    /\ resets[d] > 0
    /\ resets' = [resets EXCEPT ![d] = @ - 1]
    /\ docStatus' = [docStatus EXCEPT ![d] = "pending"]
    /\ UNCHANGED <<docHash, docDupOf, indexed, indexSubmits, structuredRows,
                   jobs, waitq, nextJob, runs, failures, docContent, lvars, gvars>>

----------------------------------------------------------------------------
(* The worker: createWorker(processDocumentWorker), WORKER_CONCURRENCY slots *)

TryStages == {"start", "fetch", "hash", "dupcheck", "markdup", "extract",
              "thumb", "index", "persist", "final"}

Step(w, pc) == [runs EXCEPT ![w].pc = pc]

\* Entering the catch block: the locals of the try block are out of scope.
Caught(w) == [runs EXCEPT ![w] = [IdleRun EXCEPT !.pc = "catch",
                                                 !.job = runs[w].job,
                                                 !.doc = runs[w].doc]]

\* A free slot takes the oldest waiting job.
Lease(w) ==
    /\ runs[w].pc = "idle"
    /\ waitq # <<>>
    /\ LET j == Head(waitq)
       IN  /\ jobs' = [jobs EXCEPT ![j].state = "active"]
           /\ runs' = [runs EXCEPT ![w] =
                         [IdleRun EXCEPT !.pc = "begin", !.job = j,
                                         !.doc = jobs[j].doc]]
    /\ waitq' = WaitAfterLease(waitq)
    /\ UNCHANGED <<docStatus, docHash, docDupOf, indexed, indexSubmits,
                   structuredRows, nextJob, resets, failures, docContent, lvars, gvars>>

\* The 'Started processing' log entry, appended before the try block.
BeginStage(w) ==
    /\ runs[w].pc = "begin"
    /\ logUp
    /\ runs' = Step(w, "start")
    /\ UNCHANGED <<docStatus, docHash, docDupOf, indexed, indexSubmits, structuredRows,
                   jobs, waitq, nextJob, resets, failures, docContent, lvars, gvars>>

\* ... and that append rejecting: no catch block is around it, the processor
\* rejects at once.
BeginRejects(w) ==
    /\ runs[w].pc = "begin"
    /\ ~logUp
    /\ jobs' = JobFailed(runs[w].job)
    /\ waitq' = WaitAfterFail(runs[w].job)
    /\ runs' = [runs EXCEPT ![w] = IdleRun]
    /\ UNCHANGED <<docStatus, docHash, docDupOf, indexed, indexSubmits, structuredRows,
                   nextJob, resets, failures, docContent, lvars, gvars>>

\* prisma.document.update({ocrStatus: 'processing'})
StartStage(w) ==
    /\ runs[w].pc = "start"
    /\ logUp
    /\ docStatus' = [docStatus EXCEPT ![runs[w].doc] = "processing"]
    /\ runs' = Step(w, "fetch")
    /\ UNCHANGED <<docHash, docDupOf, indexed, indexSubmits, structuredRows,
                   jobs, waitq, nextJob, resets, failures, docContent, lvars, gvars>>

\* prisma.document.findUnique, s3Service.downloadFile
FetchStage(w) ==
    /\ runs[w].pc = "fetch"
    /\ logUp
    /\ runs' = Step(w, "hash")
    /\ UNCHANGED <<docStatus, docHash, docDupOf, indexed, indexSubmits,
                   structuredRows, jobs, waitq, nextJob, resets, failures, docContent, lvars, gvars>>

\* calculateHash, then storeHash writes it on the document's own row
HashStage(w) ==
    /\ runs[w].pc = "hash"
    /\ logUp
    /\ LET h == calculateHash(docContent[runs[w].doc])
       IN  /\ docHash' = [docHash EXCEPT ![runs[w].doc] = h]
           /\ runs' = [runs EXCEPT ![w].pc = "dupcheck", ![w].hash = h]
    /\ UNCHANGED <<docStatus, docDupOf, indexed, indexSubmits, structuredRows,
                   jobs, waitq, nextJob, resets, failures, docContent, lvars, gvars>>

\* findDuplicate(contentHash, documentId)
DupCheckStage(w) ==
    /\ runs[w].pc = "dupcheck"
    /\ logUp
    /\ \E dup \in findDuplicate(runs[w].hash, runs[w].doc) :
         runs' = [runs EXCEPT ![w].dup = dup,
                              ![w].pc = IF dup # NoDoc THEN "markdup" ELSE "extract"]
    /\ UNCHANGED <<docStatus, docHash, docDupOf, indexed, indexSubmits,
                   structuredRows, jobs, waitq, nextJob, resets, failures, docContent, lvars, gvars>>

\* The duplicate branch: mark the document and return (the job completes).
MarkDupStage(w) ==
    /\ runs[w].pc = "markdup"
    /\ logUp
    /\ docStatus' = [docStatus EXCEPT ![runs[w].doc] = "completed"]
    /\ docDupOf' = [docDupOf EXCEPT ![runs[w].doc] = runs[w].dup]
    /\ jobs' = JobCompleted(runs[w].job)
    /\ runs' = [runs EXCEPT ![w] = IdleRun]
    /\ UNCHANGED <<docHash, indexed, indexSubmits, structuredRows, waitq,
                   nextJob, resets, failures, docContent, lvars, gvars>>

\* pdf: pdfService.extractText, isImageBasedPage (status 'pending' when image
\* based); markdown: markdownService.extractText and extractHeadings.
ExtractStage(w) ==
    /\ runs[w].pc = "extract"
    /\ logUp
    /\ LET bytes == docContent[runs[w].doc]
           pdf == FormatOf(bytes) = "pdf"
           ocr == pdf /\ isImageBasedPage(ExtractedText(bytes))
       IN  /\ docStatus' = IF ocr THEN [docStatus EXCEPT ![runs[w].doc] = "pending"]
                                  ELSE docStatus
           /\ runs' = [runs EXCEPT ![w].pc = IF pdf THEN "thumb" ELSE "index",
                                   ![w].needsOCR = ocr,
                                   ![w].did = @ \cup {"extract"}]
    /\ UNCHANGED <<docHash, docDupOf, indexed, indexSubmits, structuredRows,
                   jobs, waitq, nextJob, resets, failures, docContent, lvars, gvars>>

\* thumbnailService.generateThumbnail, s3Service.uploadFile (pdf only)
ThumbStage(w) ==
    /\ runs[w].pc = "thumb"
    /\ logUp
    /\ runs' = [runs EXCEPT ![w].pc = "index", ![w].did = @ \cup {"thumb"}]
    /\ UNCHANGED <<docStatus, docHash, docDupOf, indexed, indexSubmits,
                   structuredRows, jobs, waitq, nextJob, resets, failures, docContent, lvars, gvars>>

\* elasticService.indexDocument: client.index with id = documentId
IndexStage(w) ==
    /\ runs[w].pc = "index"
    /\ logUp
    /\ indexed' = indexed \cup {runs[w].doc}
    /\ indexSubmits' = [indexSubmits EXCEPT ![runs[w].doc] = @ + 1]
    /\ runs' = [runs EXCEPT ![w].pc = "persist", ![w].did = @ \cup {"index"}]
    /\ UNCHANGED <<docStatus, docHash, docDupOf, structuredRows, jobs, waitq,
                   nextJob, resets, failures, docContent, lvars, gvars>>

\* extractionService.extractAll, one prisma.structuredData.create per entity
PersistStage(w) ==
    /\ runs[w].pc = "persist"
    /\ logUp
    /\ structuredRows' = [structuredRows EXCEPT ![runs[w].doc] =
                            @ + EntitiesOf(docContent[runs[w].doc])]
    /\ runs' = [runs EXCEPT ![w].pc = "final", ![w].did = @ \cup {"persist"}]
    /\ UNCHANGED <<docStatus, docHash, docDupOf, indexed, indexSubmits, jobs,
                   waitq, nextJob, resets, failures, docContent, lvars, gvars>>

\* The final prisma.document.update, then the processor returns.
FinalStage(w) ==
    /\ runs[w].pc = "final"
    /\ logUp
    /\ docStatus' = [docStatus EXCEPT ![runs[w].doc] =
                       IF runs[w].needsOCR THEN "pending" ELSE "completed"]
    /\ jobs' = JobCompleted(runs[w].job)
    /\ runs' = [runs EXCEPT ![w] = IdleRun]
    /\ UNCHANGED <<docHash, docDupOf, indexed, indexSubmits, structuredRows,
                   waitq, nextJob, resets, failures, docContent, lvars, gvars>>

\* What an await of a stage can reject with: a permanent content error (the
\* extractor or the thumbnail renderer on a corrupt file) or a transient one
\* (database, blob store, search index unavailable).
ErrorKinds(pc) ==
    CASE pc = "extract" -> {"permanent"}
      [] pc = "thumb"   -> {"permanent", "transient"}
      [] OTHER          -> {"transient"}

\* An await inside the try block rejects (database, blob store, extractor or
\* search index error): control passes to the catch block. With the log store
\* down only the awaits that precede a stage's first log append are reached.
StageError(w) ==
    /\ runs[w].pc \in TryStages
    /\ logUp \/ runs[w].pc \in {"start", "fetch"}
    /\ failures < MaxFailures
    /\ failures' = failures + 1
    /\ \E kind \in ErrorKinds(runs[w].pc) :
         runs' = [Caught(w) EXCEPT ![w].err = kind]
    /\ UNCHANGED <<docStatus, docHash, docDupOf, indexed, indexSubmits,
                   structuredRows, jobs, waitq, nextJob, resets, docContent, lvars, gvars>>

\* A log append inside the try block rejects (LoggingService.addLog has no
\* catch): control passes to the catch block. Of all stages only the first
\* writes before it logs (ocrStatus 'processing').
LogAppendRejects(w) ==
    /\ runs[w].pc \in TryStages
    /\ ~logUp
    /\ docStatus' = IF runs[w].pc = "start"
                    THEN [docStatus EXCEPT ![runs[w].doc] = "processing"]
                    ELSE docStatus
    /\ runs' = [Caught(w) EXCEPT ![w].err = "log"]
    /\ UNCHANGED <<docHash, docDupOf, indexed, indexSubmits, structuredRows,
                   jobs, waitq, nextJob, resets, failures, docContent, lvars, gvars>>

\* The catch block when its own logError append rejects: the rejection leaves
\* the catch block before the status update.
CatchLogRejects(w) ==
    /\ runs[w].pc = "catch"
    /\ ~logUp
    /\ jobs' = JobFailed(runs[w].job)
    /\ waitq' = WaitAfterFail(runs[w].job)
    /\ runs' = [runs EXCEPT ![w] = IdleRun]
    /\ UNCHANGED <<docStatus, docHash, docDupOf, indexed, indexSubmits, structuredRows,
                   nextJob, resets, failures, docContent, lvars, gvars>>

\* The log store stops accepting appends (an error reply to LPUSH), and
\* accepts them again.
LogStoreFails ==
    /\ logUp
    /\ logUp' = FALSE
    /\ UNCHANGED <<docStatus, docHash, docDupOf, indexed, indexSubmits, structuredRows,
                   jobs, waitq, nextJob, resets, runs, failures, docContent,
                   errorLogged, svars, gvars>>

LogStoreRecovers ==
    /\ ~logUp
    /\ logUp' = TRUE
    /\ UNCHANGED <<docStatus, docHash, docDupOf, indexed, indexSubmits, structuredRows,
                   jobs, waitq, nextJob, resets, runs, failures, docContent,
                   errorLogged, svars, gvars>>

\* The catch block: logError, ocrStatus 'failed', metadata replaced by
\* {error, failedAt}, rethrow; BullMQ then fails or re-enqueues the job.
CatchStage(w) ==
    /\ runs[w].pc = "catch"
    /\ logUp
    /\ docStatus' = [docStatus EXCEPT ![runs[w].doc] = "failed"]
    /\ docDupOf' = [docDupOf EXCEPT ![runs[w].doc] = NoDoc]
    /\ errorLogged' = [errorLogged EXCEPT ![runs[w].job] = TRUE]
    /\ jobs' = JobFailed(runs[w].job)
    /\ waitq' = WaitAfterFail(runs[w].job)
    /\ runs' = [runs EXCEPT ![w] = IdleRun]
    /\ UNCHANGED <<docHash, indexed, indexSubmits, structuredRows, nextJob,
                   resets, failures, docContent, logUp, svars, gvars>>

----------------------------------------------------------------------------
(* Processing log: LoggingService (doc-processor writes, doc-api reads) *)

\* Appends made to the log in a run of the model.
MaxAppends == 3

\* What new Date().toISOString() returns at successive appends.
Timestamps == <<"t1", "t2", "t3", "t4", "t5", "t6">>

LogLevels == {"info", "error"}

\* The step argument of logInfo / logError: optional.
Undefined == "undefined"
LogSteps == {Undefined, "extract"}

LogFields == {"timestamp", "level", "message", "step"}

\* getLogKey(jobId): `job:logs:${jobId}`
getLogKey(jobId) == <<"job:logs:", jobId>>

LogKeys == {getLogKey(j) : j \in JobIds}

\* JSON.stringify of a log object: the key-value pairs of its defined fields.
Stringify(log) ==
    {<<k, log[k]>> : k \in {f \in LogFields : log[f] # Undefined}}

\* JSON.parse: a field the text does not hold reads as undefined.
Parse(text) ==
    [k \in LogFields |->
        IF \E p \in text : p[1] = k
        THEN (CHOOSE p \in text : p[1] = k)[2]
        ELSE Undefined]

RECURSIVE Reverse(_)
Reverse(seq) ==
    IF seq = <<>> THEN <<>> ELSE Append(Reverse(Tail(seq)), Head(seq))

\* logs.map(JSON.parse).filter(Boolean): every stored text parses to an object.
ParseAll(list) == [i \in 1..Len(list) |-> Parse(list[i])]

\* getLogs: LRANGE key 0 -1, parsed, reversed into chronological order.
getLogsMutNoReverse(list) == ParseAll(list)

getLogs(list) == Reverse(ParseAll(list))

NoRead == [job |-> NoJob, entries |-> <<>>]

\* logInfo / logError -> addLog: LPUSH of the stringified entry (the EXPIRE
\* that follows renews the retention window of the whole list; the model
\* stays inside the window).
AddLog(jobId, level, step) ==
    /\ logUp
    /\ logClock < MaxAppends
    /\ LET log == [timestamp |-> Timestamps[logClock + 1], level |-> level,
                   message |-> "m", step |-> step]
           key == getLogKey(jobId)
       IN  /\ logList' = [logList EXCEPT ![key] = <<Stringify(log)>> \o @]
           /\ appended' = [appended EXCEPT ![jobId] = Append(@, log)]
    /\ logClock' = logClock + 1
    /\ lastRead' = NoRead
    /\ UNCHANGED <<docStatus, docHash, docDupOf, indexed, indexSubmits, structuredRows,
                   jobs, waitq, nextJob, resets, runs, failures, docContent,
                   logUp, errorLogged, cvars, qvars, gvars>>

\* getLogs(jobId)
GetLogs(jobId) ==
    /\ lastRead' = [job |-> jobId, entries |-> getLogs(logList[getLogKey(jobId)])]
    /\ UNCHANGED <<docStatus, docHash, docDupOf, indexed, indexSubmits, structuredRows,
                   jobs, waitq, nextJob, resets, runs, failures, docContent,
                   logUp, errorLogged, logList, appended, logClock, cvars, qvars, gvars>>

\* clearLogs(jobId): DEL key
ClearLogs(jobId) ==
    /\ logList[getLogKey(jobId)] # <<>>
    /\ logList' = [logList EXCEPT ![getLogKey(jobId)] = <<>>]
    /\ appended' = [appended EXCEPT ![jobId] = <<>>]
    /\ lastRead' = NoRead
    /\ UNCHANGED <<docStatus, docHash, docDupOf, indexed, indexSubmits, structuredRows,
                   jobs, waitq, nextJob, resets, runs, failures, docContent,
                   logUp, errorLogged, logClock, cvars, qvars, gvars>>

\* No list under any key.
InitLog ==
    /\ logList = [k \in LogKeys |-> <<>>]
    /\ appended = [j \in JobIds |-> <<>>]
    /\ logClock = 0
    /\ lastRead = NoRead

NextLog ==
    \/ \E j \in JobIds, level \in LogLevels, step \in LogSteps : AddLog(j, level, step)
    \/ \E j \in JobIds : GetLogs(j)
    \/ \E j \in JobIds : ClearLogs(j)

----------------------------------------------------------------------------
(* Deduplication: ContentHashService.findDuplicate and mergeDuplicates, and  *)
(* POST /api/deduplication/merge, over a table of three documents            *)

\* mergeDuplicates calls in a run of the model.
MaxMerges == 2

\* The rows of the table, in upload order, and an id no row has.
CatalogDocs == {"a", "b", "c"}
Missing == "x"
RequestIds == CatalogDocs \cup {Missing}

\* document.uploadedAt
UploadedAt(d) == CASE d = "a" -> 1 [] d = "b" -> 2 [] OTHER -> 3

\* The content hash the documents of the table may share.
CatalogHashes == {calculateHash("pdfA")}

TagSets == {{"t1"}, {"t2"}}

NoStamp == "never"

\* A row as uploaded: no metadata.duplicateOf, no metadata.mergedAt.
Row(d, hash, tags) ==
    [contentHash |-> hash, uploadedAt |-> UploadedAt(d), tags |-> tags,
     campaigns |-> IF d = "b" THEN {} ELSE {"c1"},
     collections |-> IF d = "a" THEN {} ELSE {"k1"},
     storageKey |-> <<"documents/", d>>,
     duplicateOf |-> NoDoc, mergedAt |-> NoStamp]

\* prisma.document.findFirst({where: {contentHash: hash, id: {not: exclude}}}):
\* no orderBy, so the database may return any matching row; null when none
\* matches. existing?.id || null
FindFirst(tbl, hash, excludeDocumentId) ==
    LET m == {d \in DOMAIN tbl :
                tbl[d].contentHash = hash /\ d # excludeDocumentId}
    IN  IF m = {} THEN {NoDoc} ELSE m

NoFound == [hash |-> NoHash, exclude |-> NoDoc, result |-> NoDoc]

\* contentHashService.findDuplicate(hash, excludeDocumentId)
FindDuplicate(hash, excludeDocumentId) ==
    /\ \E r \in FindFirst(table, hash, excludeDocumentId) :
         found' = [hash |-> hash, exclude |-> excludeDocumentId, result |-> r]
    /\ UNCHANGED <<docStatus, docHash, docDupOf, indexed, indexSubmits, structuredRows,
                   jobs, waitq, nextJob, resets, runs, failures, docContent,
                   logUp, errorLogged, kvars, table, merged, mergeCount, qvars, gvars>>

\* The ids of a sequence of ids
Range(seq) == {seq[i] : i \in 1..Len(seq)}

\* new Set(primary.x) with every duplicate's x added
UnionOf(tbl, ids, field) == UNION {tbl[d][field] : d \in ids}

\* The loop over duplicateIds: prisma.document.update({where: {id}, data:
\* {metadata: {duplicateOf: primaryId, mergedAt}}}) one id after the other;
\* an update of an id that has no row rejects and ends the call there.
RECURSIVE MarkDuplicates(_, _, _, _)
MarkDuplicates(tbl, primaryId, duplicateIds, at) ==
    IF duplicateIds = <<>> THEN [table |-> tbl, ok |-> TRUE]
    ELSE IF Head(duplicateIds) \notin DOMAIN tbl
         THEN [table |-> tbl, ok |-> FALSE]
         ELSE MarkDuplicates(
                [tbl EXCEPT ![Head(duplicateIds)].duplicateOf = primaryId,
                            ![Head(duplicateIds)].mergedAt = at],
                primaryId, Tail(duplicateIds), at)

\* ContentHashService.mergeDuplicates: the table it leaves and whether it
\* returned (ok) or threw.
mergeDuplicatesMutNoUnion(tbl, primaryId, duplicateIds, at) ==
    IF primaryId \notin DOMAIN tbl
    THEN [table |-> tbl, ok |-> FALSE]
    ELSE MarkDuplicates(tbl, primaryId, duplicateIds, at)

mergeDuplicates(tbl, primaryId, duplicateIds, at) ==
    LET documents == (Range(duplicateIds) \cup {primaryId}) \cap DOMAIN tbl
        duplicates == documents \ {primaryId}
    IN  IF primaryId \notin documents
        THEN [table |-> tbl, ok |-> FALSE]
        ELSE MarkDuplicates(
               [tbl EXCEPT
                  ![primaryId].tags = UnionOf(tbl, {primaryId} \cup duplicates, "tags"),
                  ![primaryId].campaigns =
                      UnionOf(tbl, {primaryId} \cup duplicates, "campaigns"),
                  ![primaryId].collections =
                      UnionOf(tbl, {primaryId} \cup duplicates, "collections")],
               primaryId, duplicateIds, at)

\* The duplicateIds of a request: the route refuses an empty list.
DuplicateLists ==
    {<<d>> : d \in RequestIds} \cup {<<d, e>> : d \in RequestIds, e \in RequestIds}

NoMerge == [primary |-> NoDoc, dups |-> <<>>, ok |-> FALSE]

\* POST /api/deduplication/merge with a primaryId and a non-empty duplicateIds
MergeRoute(primaryId, duplicateIds) ==
    /\ mergeCount < MaxMerges
    /\ LET out == mergeDuplicates(table, primaryId, duplicateIds,
                                  Timestamps[mergeCount + 1])
       IN  /\ table' = out.table
           /\ merged' = [primary |-> primaryId, dups |-> duplicateIds, ok |-> out.ok]
    /\ mergeCount' = mergeCount + 1
    /\ UNCHANGED <<docStatus, docHash, docDupOf, indexed, indexSubmits, structuredRows,
                   jobs, waitq, nextJob, resets, runs, failures, docContent,
                   logUp, errorLogged, kvars, found, qvars, gvars>>

\* Three uploaded documents, each with or without a stored content hash.
InitCatalog ==
    /\ \E hashOf \in [CatalogDocs -> CatalogHashes \cup {NoHash}],
          tagsOf \in [CatalogDocs -> TagSets] :
         table = [d \in CatalogDocs |-> Row(d, hashOf[d], tagsOf[d])]
    /\ found = NoFound
    /\ merged = NoMerge
    /\ mergeCount = 0

\* Three processed documents of identical content, as a duplicate group of
\* findAllDuplicates lists them.
InitGroup ==
    /\ \E tagsOf \in [CatalogDocs -> TagSets] :
         table = [d \in CatalogDocs |-> Row(d, calculateHash("pdfA"), tagsOf[d])]
    /\ found = NoFound
    /\ merged = NoMerge
    /\ mergeCount = 0

\* The table before any document was uploaded: no rows.
RestCatalog ==
    /\ table = <<>>
    /\ found = NoFound
    /\ merged = NoMerge
    /\ mergeCount = 0

\* The worker's lookups over the table
NextFind ==
    \E hash \in CatalogHashes, x \in CatalogDocs : FindDuplicate(hash, x)

\* The merge requests over the table
NextMerge ==
    \E p \in RequestIds, dups \in DuplicateLists : MergeRoute(p, dups)

\* The earliest-uploaded of a non-empty set of rows
Earliest(ids) == CHOOSE d \in ids : \A e \in ids : UploadedAt(d) <= UploadedAt(e)

\* C23 (the claim as stated): findDuplicate(hash, excludeId) returns none
\* exactly when no document other than excludeId stores that content hash;
\* otherwise it returns the id of the earliest-uploaded document storing the
\* hash among those other than excludeId, and it never returns excludeId.
C23_FindsEarliestOther ==
    found # NoFound =>
        LET others == {d \in DOMAIN table :
                         table[d].contentHash = found.hash /\ d # found.exclude}
        IN  /\ found.result # found.exclude
            /\ found.result = IF others = {} THEN NoDoc ELSE Earliest(others)

\* The step is a mergeDuplicates call.
Merges == mergeCount' > mergeCount

MergedFields == {"tags", "campaigns", "collections"}

\* C24: after mergeDuplicates(primaryId, duplicateIds) returns successfully,
\* the primary's tags, campaigns and collections are each the set union of
\* that field over the primary and all named duplicates, every named
\* duplicate carries duplicateOf = primaryId with the merge's timestamp, no
\* row has been deleted, and each duplicate's own tags, campaigns,
\* collections, content hash and storage key are unchanged; when primaryId
\* resolves to no row the call fails and no row is changed.
C24_MergeUnionsIntoPrimary ==
    [][Merges =>
         LET primaryId == merged'.primary
             named == Range(merged'.dups) \ {primaryId}
         IN  /\ merged'.ok =>
                  /\ \A f \in MergedFields :
                       table'[primaryId][f] =
                         UNION {table[d][f] : d \in {primaryId} \cup named}
                  /\ \A d \in named :
                       /\ table'[d].duplicateOf = primaryId
                       /\ table'[d].mergedAt = Timestamps[mergeCount']
                       /\ \A f \in MergedFields \cup {"contentHash", "storageKey"} :
                            table'[d][f] = table[d][f]
                  /\ DOMAIN table' = DOMAIN table
             /\ primaryId \notin DOMAIN table
                  => ~merged'.ok /\ table' = table]_vars

\* The first merge, of two other documents into a primary, has returned: the
\* primary has gained a tag and both duplicates reference it.
C24_Witness ==
    /\ mergeCount = 1 /\ merged.ok
    /\ Len(merged.dups) = 2 /\ merged.dups[1] # merged.dups[2]
    /\ merged.primary \notin Range(merged.dups)
    /\ table[merged.primary].tags = {"t1", "t2"}
    /\ \A d \in Range(merged.dups) :
         table[d].duplicateOf = merged.primary /\ table[d].tags # {"t1", "t2"}

\* C25 (the claim as stated): after any merge request the merged group has
\* exactly one primary: the primary carries no duplicateOf back-reference
\* (also when primaryId is listed among duplicateIds), and every other named
\* member references the primary and not itself.
C25_ExactlyOnePrimary ==
    [][(Merges /\ merged'.ok) =>
         LET primaryId == merged'.primary
         IN  /\ table'[primaryId].duplicateOf = NoDoc
             /\ \A d \in Range(merged'.dups) \ {primaryId} :
                  table'[d].duplicateOf = primaryId /\ table'[d].duplicateOf # d
      ]_vars

----------------------------------------------------------------------------
(* Queue administration: cleanOldJobs and POST /api/admin/queue/clean *)

\* cleanOldJobs calls in a run of the model.
MaxCleans == 2

\* Date.now() during the run, in days since the epoch (time is counted in
\* days: olderThanDays * 24 * 60 * 60 * 1000 milliseconds is olderThanDays).
Today == 10

\* The jobs of the queue finished at most this many days ago.
MaxAge == 3

\* The olderThanDays of a request: a few days, or a number as large as Today.
MaxCleanDays == 2

CleanDays == (1..MaxCleanDays) \cup {Today}

FinishDays == (Today - MaxAge)..Today

\* The limit cleanOldJobs passes to each documentQueue.clean
CleanLimit == 1000

Finished == {"completed", "failed"}

\* BullMQ Queue.clean(grace, limit, type): it removes up to limit jobs of the
\* set whose finishedOn is at or before Date.now() - grace. The possible sets
\* of removed job ids.
QueueClean(grace, limit, type) ==
    LET timestamp == Today - grace
        m == {j \in JobIds : jobs[j].state = type /\ finishedOn[j] <= timestamp}
    IN  IF Cardinality(m) <= limit THEN {m}
        ELSE {r \in SUBSET m : Cardinality(r) = limit}

\* cleanOldJobs(olderThanDays): cutoff = Date.now() - olderThanDays days is
\* handed to clean as its grace period, for completed and for failed jobs.
cleanOldJobs(olderThanDays) ==
    LET cutoff == Today - olderThanDays
    IN  {c \cup f : c \in QueueClean(cutoff, CleanLimit, "completed"),
                    f \in QueueClean(cutoff, CleanLimit, "failed")}

\* POST /api/admin/queue/clean {olderThanDays}
CleanRoute(olderThanDays) ==
    /\ cleanCount < MaxCleans
    /\ cleanCount' = cleanCount + 1
    /\ \E removed \in cleanOldJobs(olderThanDays) :
         /\ jobs' = [j \in JobIds |-> IF j \in removed THEN NoJobRec ELSE jobs[j]]
         /\ finishedOn' = [j \in JobIds |-> IF j \in removed THEN 0 ELSE finishedOn[j]]
    /\ UNCHANGED <<docStatus, docHash, docDupOf, indexed, indexSubmits, structuredRows,
                   waitq, nextJob, resets, runs, failures, docContent,
                   logUp, errorLogged, kvars, cvars, gvars>>

\* No job has finished, no clean was requested.
RestQueue ==
    /\ finishedOn = [j \in JobIds |-> 0]
    /\ cleanCount = 0

\* The waiting jobs among ids 1..n, oldest first
RECURSIVE WaitingUpTo(_, _)
WaitingUpTo(st, n) ==
    IF n = 0 THEN <<>>
    ELSE IF st[n] = "waiting" THEN Append(WaitingUpTo(st, n - 1), n)
         ELSE WaitingUpTo(st, n - 1)

\* A queue with history: every job id was handed out; each job is waiting,
\* active on the slot of its number, or finished on one of the last days.
InitClean ==
    /\ \E st \in [JobIds -> {"waiting", "active"} \cup Finished],
          fin \in [JobIds -> FinishDays] :
         /\ \A j \in JobIds : st[j] = "active" => j \in Workers
         /\ \A j \in JobIds : st[j] \notin Finished => fin[j] = Today
         /\ jobs = [j \in JobIds |->
                      [state |-> st[j], doc |-> "d1",
                       attemptsMade |-> IF st[j] = "failed" THEN 1 ELSE 0,
                       attempts |-> ApiDefaultAttempts]]
         /\ finishedOn = [j \in JobIds |-> IF st[j] \in Finished THEN fin[j] ELSE 0]
         /\ waitq = WaitingUpTo(st, MaxJobs)
         /\ runs = [w \in Workers |->
                      IF w \in JobIds /\ st[w] = "active"
                      THEN [IdleRun EXCEPT !.pc = "begin", !.job = w, !.doc = "d1"]
                      ELSE IdleRun]
    /\ cleanCount = 0
    /\ nextJob = MaxJobs + 1
    /\ docContent = [d \in Docs |-> "pdfA"]
    /\ docStatus = [d \in Docs |-> "pending"]
    /\ docHash = [d \in Docs |-> NoHash]
    /\ docDupOf = [d \in Docs |-> NoDoc]
    /\ indexed = {}
    /\ indexSubmits = [d \in Docs |-> 0]
    /\ structuredRows = [d \in Docs |-> 0]
    /\ resets = [d \in Docs |-> 0]
    /\ failures = 0
    /\ logUp = TRUE
    /\ errorLogged = [j \in JobIds |-> FALSE]
    /\ InitLog

NextClean == \E d \in CleanDays : CleanRoute(d)

\* The step is a cleanOldJobs call for this many days, removing these jobs.
Cleans(days, removed) ==
    /\ cleanCount' > cleanCount
    /\ removed = {j \in JobIds : jobs[j].state # "none" /\ jobs'[j].state = "none"}
    /\ \E r \in cleanOldJobs(days) : r = removed

\* C26 (the claim as stated): cleanOldJobs(d) removes the completed and
\* failed jobs that finished more than d days before the call (up to the
\* per-call limit) and removes no job that finished less than d days before
\* the call, nor any waiting or active job.
C26_CleanRemovesOldFinishedOnly ==
    [][\A d \in CleanDays, removed \in SUBSET JobIds :
         Cleans(d, removed) =>
           LET old == {j \in JobIds : /\ jobs[j].state \in Finished
                                      /\ finishedOn[j] < Today - d}
           IN  /\ Cardinality(old) <= CleanLimit => old \subseteq removed
               /\ \A j \in removed :
                    /\ jobs[j].state \in Finished
                    /\ ~(finishedOn[j] > Today - d)]_vars

----------------------------------------------------------------------------
(* The worker specification *)

\* The documents are interchangeable: one content assignment per unordered pair.
ContentRank(bytes) == CASE bytes = "pdfA" -> 1 [] bytes = "pdfScan" -> 2 [] OTHER -> 3

InitContents ==
    {f \in [Docs -> Contents] : ContentRank(f["d1"]) <= ContentRank(f["d2"])}

InitWorker ==
    /\ docContent \in InitContents
    /\ docStatus = [d \in Docs |-> "pending"]
    /\ docHash = [d \in Docs |-> NoHash]
    /\ docDupOf = [d \in Docs |-> NoDoc]
    /\ indexed = {}
    /\ indexSubmits = [d \in Docs |-> 0]
    /\ structuredRows = [d \in Docs |-> 0]
    /\ jobs = [j \in JobIds |-> NoJobRec]
    /\ waitq = <<>>
    /\ nextJob = 1
    /\ resets = [d \in Docs |-> 0]
    /\ runs = [w \in Workers |-> IdleRun]
    /\ failures = 0
    /\ logUp = TRUE
    /\ errorLogged = [j \in JobIds |-> FALSE]
    /\ InitLog

NextWorker ==
    \/ \E d \in Docs : ProcessRoute(d)
    \/ \E d \in Docs : ReprocessRoute(d)
    \/ \E d \in Docs : RouteReset(d)
    \/ \E w \in Workers : Lease(w)
    \/ \E w \in Workers : BeginStage(w)
    \/ \E w \in Workers : StartStage(w)
    \/ \E w \in Workers : FetchStage(w)
    \/ \E w \in Workers : HashStage(w)
    \/ \E w \in Workers : DupCheckStage(w)
    \/ \E w \in Workers : MarkDupStage(w)
    \/ \E w \in Workers : ExtractStage(w)
    \/ \E w \in Workers : ThumbStage(w)
    \/ \E w \in Workers : IndexStage(w)
    \/ \E w \in Workers : PersistStage(w)
    \/ \E w \in Workers : FinalStage(w)
    \/ \E w \in Workers : StageError(w)
    \/ \E w \in Workers : CatchStage(w)

\* The worker beside a log store that can stop accepting appends.
NextWorkerLog ==
    \/ NextWorker
    \/ \E w \in Workers : BeginRejects(w)
    \/ \E w \in Workers : LogAppendRejects(w)
    \/ \E w \in Workers : CatchLogRejects(w)
    \/ LogStoreFails
    \/ LogStoreRecovers


----------------------------------------------------------------------------
(* Claims about the queue and the pipeline (checked under SpecWorker) *)

Holders(j) == {w \in Workers : runs[w].job = j}

C2_FailedOnlyAfterThreeAttempts ==
    \A j \in JobIds :
        jobs[j].state = "failed" => jobs[j].attemptsMade = ProcessorDefaultAttempts

\* C3: a run for a document whose bytes hash to a content hash stored on a
\* different document takes the duplicate branch: the duplicate it names is
\* another document holding that hash; the run has done no extraction,
\* thumbnail, index submission or structured-data persistence; its last step
\* writes ocrStatus completed and duplicateOf, touches neither the search index
\* nor the structured data, and completes the job.
C3_DuplicateShortCircuit ==
    /\ [](\A w \in Workers :
            runs[w].dup # NoDoc =>
              runs[w].did = {} /\ runs[w].pc = "markdup")
    /\ [][\A w \in Workers :
            LET doc == runs[w].doc
                others == {d \in Docs \ {doc} :
                             docHash[d] = calculateHash(docContent[doc])}
            IN  /\ (runs[w].pc = "dupcheck" /\ runs'[w].pc \notin {"dupcheck", "catch"}
                      /\ others # {})
                    => (runs'[w].pc = "markdup" /\ runs'[w].dup \in others)
                /\ (runs[w].pc = "markdup" /\ runs'[w].pc = "idle")
                    => /\ docStatus'[doc] = "completed"
                       /\ docDupOf'[doc] = runs[w].dup
                       /\ runs[w].dup \in Docs \ {doc}
                       /\ jobs'[runs[w].job].state = "completed"
                       /\ UNCHANGED <<indexed, indexSubmits, structuredRows>>
         ]_vars

\* C3 witness: a job has completed through the duplicate branch: its document
\* is completed, names another document as duplicateOf and was never indexed.
C3_Witness ==
    \E j \in JobIds :
        /\ jobs[j].state = "completed"
        /\ docStatus[jobs[j].doc] = "completed"
        /\ docDupOf[jobs[j].doc] \in Docs \ {jobs[j].doc}
        /\ indexSubmits[jobs[j].doc] = 0
        /\ structuredRows[jobs[j].doc] = 0

\* C4 (the claim as stated): running the pipeline again for the same document
\* with unchanged content submits nothing to the search index a second time
\* and leaves no duplicated structured-data rows.
C4_RerunIsIdempotent ==
    \A d \in Docs :
        /\ indexSubmits[d] <= 1
        /\ structuredRows[d] <= EntitiesOf(docContent[d])

\* The run on slot w ends in this step with its failure reported to the queue.
Reported(w) ==
    /\ runs[w].pc \in {"begin", "catch"}
    /\ runs'[w].pc = "idle"
    /\ jobs'[runs[w].job].attemptsMade > jobs[runs[w].job].attemptsMade

\* C18 (the claim as stated): a job whose pipeline raises a permanent content
\* error goes to terminal failed after that attempt and is not re-enqueued,
\* whereas one that raises a transient error is re-enqueued while attempts of
\* the retry policy (3) remain.
C18_RetryByErrorClass ==
    [][\A w \in Workers :
         (Reported(w) /\ runs[w].err \in {"permanent", "transient"})
         => LET j == runs[w].job
            IN  IF runs[w].err = "permanent"
                THEN jobs'[j].state = "failed"
                ELSE jobs'[j].attemptsMade < ProcessorDefaultAttempts
                       => jobs'[j].state = "waiting"]_vars

\* C19 (the claim as stated): when a pipeline stage fails, an error-level log
\* entry is appended under the job's id and the document's status is set to
\* failed before the failure is reported to the queue.
C19_LoggedAndFailedBeforeRethrow ==
    [][\A w \in Workers :
         (Reported(w) /\ runs[w].err \in {"permanent", "transient"})
         => /\ errorLogged'[runs[w].job]
            /\ docStatus'[runs[w].doc] = "failed"]_vars

\* C20 (the claim as stated): loss of the processing log is non-fatal: a log
\* append that rejects neither fails the job nor changes its outcome, so a
\* failure is reported to the queue only for a run in which a stage failed.
C20_LogLossNonFatal ==
    [][\A w \in Workers :
         Reported(w) => runs[w].err \in {"permanent", "transient"}]_vars

\* C22: for a PDF whose extracted text is image-based (trimmed text shorter
\* than 50 characters or fewer than 10 words) the run is a partial success:
\* extraction passes on to the thumbnail stage with the status set to
\* pending, and the run that reaches its end has run the thumbnail and
\* search-index stages, completes the job without re-enqueueing it and
\* leaves the status pending; for a PDF that is not image-based the run
\* leaves the status completed.
C22_ImageBasedIsPartialSuccess ==
    [][\A w \in Workers : runs[w].pc \in {"extract", "final"} =>
         LET doc == runs[w].doc
             text == ExtractedText(docContent[doc])
             pdf == FormatOf(docContent[doc]) = "pdf"
             image == text.chars < 50 \/ text.words < 10
         IN  /\ (pdf /\ runs[w].pc = "extract"
                  /\ runs'[w].pc \notin {"extract", "catch"})
                 => /\ runs'[w].pc = "thumb"
                    /\ image => docStatus'[doc] = "pending"
             /\ (pdf /\ runs[w].pc = "final" /\ runs'[w].pc = "idle")
                 => /\ {"extract", "thumb", "index"} \subseteq runs[w].did
                    /\ jobs'[runs[w].job].state = "completed"
                    /\ \A i \in 1..Len(waitq') : waitq'[i] # runs[w].job
                    /\ docStatus'[doc] = IF image THEN "pending" ELSE "completed"
      ]_vars

\* The only job of a scanned PDF has completed with no stage error: the
\* document is indexed, is no duplicate and its status is pending.
C22_Witness ==
    \E j \in JobIds :
        /\ nextJob = 2 /\ failures = 0
        /\ jobs[j].state = "completed"
        /\ docContent[jobs[j].doc] = "pdfScan"
        /\ jobs[j].doc \in indexed
        /\ docDupOf[jobs[j].doc] = NoDoc
        /\ docStatus[jobs[j].doc] = "pending"

\* The jobs enqueued for document d so far
JobsOf(d) == {j \in JobIds : jobs[j].doc = d}

\* C27 (the claim as stated): once the job of every processing request made
\* for a document (through POST /api/documents/:id/process or POST
\* /api/admin/documents/:id/reprocess) has completed successfully, and the
\* document is neither image-based nor a duplicate, the document's status is
\* completed, and it stays so until the next processing request, whatever
\* the interleaving of the route's own status write with the worker's.
C27_CompletedStaysCompleted ==
    \A d \in Docs :
        (/\ JobsOf(d) # {}
         /\ \A j \in JobsOf(d) : jobs[j].state = "completed"
         /\ docDupOf[d] = NoDoc
         /\ ~(FormatOf(docContent[d]) = "pdf"
               /\ isImageBasedPage(ExtractedText(docContent[d]))))
        => docStatus[d] = "completed"

\* The documents whose bytes are those of d
SameContent(d) == {e \in Docs : docContent[e] = docContent[d]}

\* C28 (the claim as stated): among documents of byte-identical content
\* processed by the worker pool in any order and interleaving, the
\* duplicateOf references never form a cycle, a document is only ever marked
\* duplicate of a document that went through the pipeline (it is in the
\* search index), and once every document of the group has been processed
\* with all jobs completed, at least one of them is in the search index.
C28_DuplicateRefsWellFounded ==
    \A d \in Docs :
        /\ docDupOf[d] # NoDoc =>
              /\ docDupOf[d] # d
              /\ docDupOf[docDupOf[d]] # d
              /\ docDupOf[d] \in indexed
        /\ (\A e \in SameContent(d) :
               JobsOf(e) # {} /\ \A j \in JobsOf(e) : jobs[j].state = "completed")
           => \E e \in SameContent(d) : e \in indexed

----------------------------------------------------------------------------
(* Session Registry: session.service (SessionService) over redis.service *)

\* The ids uuidv4 hands out to createSession, in order.
SessionIds == <<"s1", "s2">>
Sessions == {SessionIds[i] : i \in 1..Len(SessionIds)}
NoSid == "nosid"

Conns == {"c1", "c2"}
Users == {"u1", "u2"}
NoUser == "nouser"

\* The pages and scroll positions clients send (a new session is at page 1,
\* position 0).
Pages == {2}
Positions == {1}

SettingKeys == {"syncScroll", "syncPage", "syncHighlight"}

\* createSession's default when the payload carries no syncSettings
DefaultSync == [k \in SettingKeys |-> TRUE]

\* No value under the key (redis GET returns null).
NoSession == [viewers |-> <<>>, currentPage |-> 0, scrollPosition |-> 0,
              syncSettings |-> DefaultSync]

Exists(session) == session.currentPage # 0

\* SessionService.createSession: the session as first stored.
NewSession(syncSettings) ==
    [viewers |-> <<>>, currentPage |-> 1, scrollPosition |-> 0,
     syncSettings |-> syncSettings]

\* viewers.includes(userId)
Includes(viewers, u) == \E i \in 1..Len(viewers) : viewers[i] = u

\* viewers.filter(id => id !== userId)
RECURSIVE Without(_, _)
Without(viewers, u) ==
    IF viewers = <<>> THEN <<>>
    ELSE IF Head(viewers) = u THEN Without(Tail(viewers), u)
         ELSE <<Head(viewers)>> \o Without(Tail(viewers), u)

\* SessionService.addViewer: whether it calls updateSession, and what it stores.
AddViewerWritesMutAlways(session, u) == TRUE

AddViewerWrites(session, u) == ~Includes(session.viewers, u)

AddedViewer(session, u) == [session EXCEPT !.viewers = Append(@, u)]

\* SessionService.removeViewer
RemovedViewer(session, u) == [session EXCEPT !.viewers = Without(@, u)]

\* SessionService.updatePage, updateScroll
UpdatedPage(session, page) == [session EXCEPT !.currentPage = page]

UpdatedScroll(session, position) == [session EXCEPT !.scrollPosition = position]

\* SessionService.updateSyncSettings: {...session.syncSettings, ...settings}.
\* A partial settings object is a set of <<key, value>> pairs.
UpdatedSettings(session, partial) ==
    [session EXCEPT !.syncSettings =
        [k \in SettingKeys |->
            IF \E v \in BOOLEAN : <<k, v>> \in partial
            THEN CHOOSE v \in BOOLEAN : <<k, v>> \in partial
            ELSE @[k]]]

\* redisService.getSession: GET session:<id>. It leaves the expiry as it is.
TtlAfterGet(sid) == ttl

\* redisService.setSession: SETEX session:<id> SESSION_TTL data
TtlAfterSet(sid) == [ttl EXCEPT ![sid] = SESSION_TTL]

\* redisService.refreshSession: EXPIRE session:<id> SESSION_TTL (no key: no-op)
TtlAfterRefresh(t, sid) == [t EXCEPT ![sid] = IF @ > 0 THEN SESSION_TTL ELSE 0]

----------------------------------------------------------------------------
(* Realtime gateway: websocket/server.ts and the handlers *)

Nothing == [type |-> "none", n |-> [c \in Conns |-> 0]]

\* ws.send(message): one message to the connection (none once it is closed)
SendTo(c, type) ==
    [type |-> type,
     n |-> [x \in Conns |-> IF x = c /\ connState[c] = "open" THEN 1 ELSE 0]]

\* DocumentWebSocketServer.broadcast(sessionId, message, exclude): one message
\* to every connection of the session's set that is not exclude and is OPEN.
\* NoConn as exclude: no connection is excluded.
NoConn == "noconn"

Broadcast(cl, sid, exclude) ==
    [c \in Conns |->
        IF c \in cl[sid] /\ c # exclude /\ connState[c] = "open" THEN 1 ELSE 0]

\* handlePageChange / handleScrollSync: whether the event is broadcast.
PageGateMutAlways(session) == TRUE

PageGate(session) == session.syncSettings["syncPage"]

ScrollGate(session) == session.syncSettings["syncScroll"]

\* handlePushPage / handlePushReference: always broadcast.
PushGateMutSync(session) == session.syncSettings["syncPage"]

PushGate(session) == TRUE

\* A handler invocation suspended at its first await: the GET it issued when
\* it started, answered with snap. Its continuation is one step: the store
\* takes commands in issue order, so a SETEX of the continuation takes effect
\* when it is issued, and what the handler does on the SETEX's reply is taken
\* together with it.
\* rank orders the handlers of one connection that are suspended together
\* by the arrival of their events: a later event has a larger rank.
ArrivalRank(c) ==
    LET mine == {h \in hs : h.conn = c}
    IN  IF mine = {} THEN 0
        ELSE 1 + (CHOOSE r \in {h.rank : h \in mine} :
                     \A h \in mine : h.rank <= r)

Handler(c, type, sid, user, page, pos, partial, snap) ==
    [conn |-> c, type |-> type, sid |-> sid, user |-> user, page |-> page,
     pos |-> pos, partial |-> partial, snap |-> snap, rank |-> ArrivalRank(c)]

MessageHandlers == {h \in hs : h.type # "disconnect"}

CanReceive(c) ==
    /\ connState[c] = "open"
    /\ Cardinality(MessageHandlers) < MaxHandlers

\* The message budget of the model.
Counted(type) ==
    CASE type = "join" ->
           /\ msgCount.joins < MaxJoins
           /\ msgCount' = [msgCount EXCEPT !.joins = @ + 1]
      [] type = "invalid" ->
           /\ msgCount.events + msgCount.invalid < MaxEvents
           /\ msgCount' = [msgCount EXCEPT !.invalid = @ + 1]
      [] OTHER ->
           /\ msgCount.events + msgCount.invalid < MaxEvents
           /\ msgCount' = [msgCount EXCEPT !.events = @ + 1]

\* doc:session:create -> handleSessionCreate: createSession stores the new
\* session under a fresh id and the creator is sent session:created.
CreateSettings ==
    {DefaultSync, [k \in SettingKeys |-> k = "syncHighlight"]}

SessionCreate(c, syncSettings) ==
    /\ CanReceive(c)
    /\ nextSession <= Len(SessionIds)
    /\ LET sid == SessionIds[nextSession]
       IN  /\ store' = [store EXCEPT ![sid] = NewSession(syncSettings)]
           /\ ttl' = TtlAfterSet(sid)
    /\ nextSession' = nextSession + 1
    /\ UNCHANGED msgCount
    /\ lastSent' = SendTo(c, "session:created")
    /\ UNCHANGED <<connState, connSession, connUser, clients, hs, leftTold, wvars, hvars>>

\* A message whose handler starts with sessionService.getSession(sessionId):
\* ws.on('message') -> handleMessage -> the handler runs to its first await,
\* the GET, which the store answers in issue order.
Receive(c, type, sid, user, page, pos, partial) ==
    /\ CanReceive(c)
    /\ Counted(type)
    /\ Handler(c, type, sid, user, page, pos, partial, store[sid]) \notin hs
    /\ hs' = hs \cup {Handler(c, type, sid, user, page, pos, partial, store[sid])}
    /\ ttl' = TtlAfterGet(sid)
    /\ lastSent' = Nothing
    /\ UNCHANGED <<store, nextSession, connState, connSession, connUser, clients,
                   leftTold, wvars, hvars>>

PartialSettings == {{<<"syncPage", FALSE>>}, {<<"syncScroll", TRUE>>}}

\* The session ids a client can name in a message: those createSession has
\* handed out (also after the session has expired).
Named == {SessionIds[i] : i \in 1..(nextSession - 1)}

RecvJoin(c) ==
    \E sid \in Named, u \in Users : Receive(c, "join", sid, u, 0, 0, {})

\* handleSessionLeave is handed ws.userId as it is when the message is dispatched.
RecvLeave(c) ==
    /\ connUser[c] # NoUser
    /\ \E sid \in Named : Receive(c, "leave", sid, connUser[c], 0, 0, {})

\* ... and answers 'User ID not provided' when it is unset.
RecvLeaveNoUser(c) ==
    /\ CanReceive(c)
    /\ connUser[c] = NoUser
    /\ Counted("leave")
    /\ lastSent' = SendTo(c, "error")
    /\ UNCHANGED <<store, ttl, nextSession, connState, connSession, connUser,
                   clients, hs, leftTold, wvars, hvars>>

\* A message that is not JSON or not {type, data}, a type no case of
\* handleMessage names, or a payload (of an event other than join) that its
\* handler's schema rejects: the catch block, or the default case, answers
\* the sender with an error event.
RecvMalformed(c) ==
    /\ CanReceive(c)
    /\ Counted("invalid")
    /\ lastSent' = SendTo(c, "error")
    /\ UNCHANGED <<store, ttl, nextSession, connState, connSession, connUser,
                   clients, hs, leftTold, wvars, hvars>>

\* doc:session:join whose payload SessionJoinPayloadSchema rejects (here: a
\* session id and no userId). handleSessionJoin answers 'Failed to join
\* session'; handleJoin then reads the payload unvalidated: it binds the
\* connection, adds it to the session's set and issues the EXPIRE.
RecvInvalidJoin(c) ==
    /\ CanReceive(c)
    /\ Counted("invalid")
    /\ \E sid \in Named :
         /\ connSession' = [connSession EXCEPT ![c] = sid]
         /\ clients' = [clients EXCEPT ![sid] = @ \cup {c}]
         /\ ttl' = TtlAfterRefresh(ttl, sid)
    /\ connUser' = [connUser EXCEPT ![c] = NoUser]
    /\ leftTold' = [leftTold EXCEPT ![c] = {}]
    /\ lastSent' = SendTo(c, "error")
    /\ UNCHANGED <<store, nextSession, connState, hs, wvars, hvars>>

RecvUpdateSettings(c) ==
    \E sid \in Named, p \in PartialSettings :
        Receive(c, "update-settings", sid, NoUser, 0, 0, p)

RecvPageChange(c) ==
    \E sid \in Named, page \in Pages :
        Receive(c, "page-change", sid, NoUser, page, 0, {})

RecvScrollSync(c) ==
    \E sid \in Named, pos \in Positions :
        Receive(c, "scroll-sync", sid, NoUser, 0, pos, {})

RecvPushPage(c) ==
    \E sid \in Named, page \in Pages :
        Receive(c, "push-page", sid, NoUser, page, 0, {})

RecvPushReference(c) ==
    \E sid \in Named : Receive(c, "push-reference", sid, NoUser, 0, 0, {})

----------------------------------------------------------------------------
(* The handlers' continuations *)

Done(h) == hs \ {h}

\* updateSession(session): SETEX of the handler's copy of the session
SetSession(h, session) ==
    /\ store' = [store EXCEPT ![h.sid] = session]
    /\ ttl' = TtlAfterSet(h.sid)

\* The handler answers the sender with an error event and returns.
ErrorReply(h) ==
    /\ hs' = Done(h)
    /\ lastSent' = SendTo(h.conn, "error")
    /\ UNCHANGED <<store, ttl, nextSession, connState, connSession, connUser,
                   clients, msgCount, leftTold, wvars, hvars>>

\* handleJoin after handleSessionJoin returned: bind the connection, add it to
\* the session's set, refreshSession.
JoinBind(h, sent) ==
    /\ connSession' = [connSession EXCEPT ![h.conn] = h.sid]
    /\ connUser' = [connUser EXCEPT ![h.conn] = h.user]
    /\ clients' = [clients EXCEPT ![h.sid] = @ \cup {h.conn}]
    /\ leftTold' = [leftTold EXCEPT ![h.conn] = {}]
    /\ hs' = Done(h)
    /\ lastSent' = sent
    /\ UNCHANGED <<nextSession, connState, msgCount, wvars, hvars>>

\* handleSessionJoin with the session in hand: session:joined to the joiner
\* and to the others of the session.
JoinedSent(h) ==
    [type |-> "session:joined",
     n |-> [c \in Conns |->
              SendTo(h.conn, "session:joined").n[c] + Broadcast(clients, h.sid, h.conn)[c]]]

\* doc:session:join, GET answered: addViewer, the replies, then the rest of
\* handleJoin (EXPIRE on whatever key there is now).
ContinueJoin(h) ==
    /\ h.type = "join"
    /\ IF ~Exists(h.snap)
       THEN /\ JoinBind(h, SendTo(h.conn, "error"))
            /\ ttl' = TtlAfterRefresh(ttl, h.sid)
            /\ UNCHANGED store
       ELSE IF AddViewerWrites(h.snap, h.user)
            THEN /\ JoinBind(h, JoinedSent(h))
                 /\ store' = [store EXCEPT ![h.sid] = AddedViewer(h.snap, h.user)]
                 /\ ttl' = TtlAfterRefresh(TtlAfterSet(h.sid), h.sid)
            ELSE /\ JoinBind(h, JoinedSent(h))
                 /\ ttl' = TtlAfterRefresh(ttl, h.sid)
                 /\ UNCHANGED store

\* doc:session:leave, GET answered: removeViewer, then session:left to every
\* connection of the session's set; nothing at all when there is no session.
ContinueLeave(h) ==
    /\ h.type = "leave"
    /\ hs' = Done(h)
    /\ IF ~Exists(h.snap)
       THEN /\ lastSent' = Nothing
            /\ UNCHANGED <<store, ttl, leftTold>>
       ELSE LET n == Broadcast(clients, h.sid, NoConn)
            IN  /\ SetSession(h, RemovedViewer(h.snap, h.user))
                /\ lastSent' = [type |-> "session:left", n |-> n]
                /\ leftTold' = [leftTold EXCEPT ![h.conn] =
                                  @ \cup {c \in Conns \ {h.conn} : n[c] > 0}]
    /\ UNCHANGED <<nextSession, connState, connSession, connUser, clients,
                   msgCount, wvars, hvars>>

MutatingTypes == {"update-settings", "page-change", "scroll-sync", "push-page"}

\* What updateSyncSettings / updateScroll / updatePage store for the handler.
Mutated(h) ==
    CASE h.type = "update-settings" -> UpdatedSettings(h.snap, h.partial)
      [] h.type = "scroll-sync"     -> UpdatedScroll(h.snap, h.pos)
      [] OTHER                      -> UpdatedPage(h.snap, h.page)

\* What the handler broadcasts once its update has returned the session.
UpdateSent(h, session) ==
    CASE h.type = "update-settings" ->
           [type |-> "session:updated", n |-> Broadcast(clients, h.sid, NoConn)]
      [] h.type = "page-change" ->
           IF PageGate(session)
           THEN [type |-> "page:changed", n |-> Broadcast(clients, h.sid, h.conn)]
           ELSE Nothing
      [] h.type = "scroll-sync" ->
           IF ScrollGate(session)
           THEN [type |-> "scroll:synced", n |-> Broadcast(clients, h.sid, h.conn)]
           ELSE Nothing
      [] OTHER ->
           IF PushGate(session)
           THEN [type |-> "page:pushed", n |-> Broadcast(clients, h.sid, h.conn)]
           ELSE Nothing

\* update-settings, page-change, scroll-sync, push-page, GET answered:
\* 'Session not found', or the read-modify-write's SETEX and the broadcast.
ContinueUpdate(h) ==
    /\ h.type \in MutatingTypes
    /\ IF ~Exists(h.snap)
       THEN ErrorReply(h)
       ELSE /\ SetSession(h, Mutated(h))
            /\ hs' = Done(h)
            /\ lastSent' = UpdateSent(h, Mutated(h))
            /\ UNCHANGED <<nextSession, connState, connSession, connUser,
                           clients, msgCount, leftTold, wvars, hvars>>

\* doc:push:reference, GET answered: 'Session not found' or reference:pushed.
ContinuePushReference(h) ==
    /\ h.type = "push-reference"
    /\ IF ~Exists(h.snap)
       THEN ErrorReply(h)
       ELSE /\ hs' = Done(h)
            /\ lastSent' = IF PushGate(h.snap)
                           THEN [type |-> "reference:pushed",
                                 n |-> Broadcast(clients, h.sid, h.conn)]
                           ELSE Nothing
            /\ UNCHANGED <<store, ttl, nextSession, connState, connSession,
                           connUser, clients, msgCount, leftTold, wvars, hvars>>

\* ws.on('close') -> handleDisconnect: leave the session's set, start
\* removeViewer (not awaited), session:left to the rest of the set.
Close(c) ==
    /\ connState[c] \in {"open", "terminated"}
    /\ connState' = [connState EXCEPT ![c] = "closed"]
    /\ IF connSession[c] = NoSid
       THEN /\ lastSent' = Nothing
            /\ UNCHANGED <<clients, hs>>
       ELSE LET sid == connSession[c]
                left == [clients EXCEPT ![sid] = @ \ {c}]
            IN  /\ clients' = left
                /\ hs' = hs \cup {Handler(c, "disconnect", sid, connUser[c],
                                          0, 0, {}, store[sid])}
                /\ lastSent' = [type |-> "session:left",
                                n |-> [x \in Conns |->
                                         IF x \in left[sid] /\ x # c
                                            /\ connState[x] = "open"
                                         THEN 1 ELSE 0]]
    /\ UNCHANGED <<store, ttl, nextSession, connSession, connUser, msgCount,
                   leftTold, wvars, hvars>>

\* The removeViewer started by handleDisconnect, GET answered.
ContinueDisconnect(h) ==
    /\ h.type = "disconnect"
    /\ hs' = Done(h)
    /\ IF Exists(h.snap)
       THEN /\ store' = [store EXCEPT ![h.sid] = RemovedViewer(h.snap, h.user)]
            /\ ttl' = TtlAfterSet(h.sid)
       ELSE UNCHANGED <<store, ttl>>
    /\ lastSent' = Nothing
    /\ UNCHANGED <<nextSession, connState, connSession, connUser, clients,
                   msgCount, leftTold, wvars, hvars>>

\* setupHeartbeat: whether the interval callback terminates a connection.
DeadMutNever(alive) == FALSE

Dead(alive) == alive = FALSE

\* The setInterval callback: every connection of wss.clients is terminated
\* when its isAlive is false, else marked not alive and pinged. terminate()
\* destroys the socket; its 'close' event follows.
HeartbeatTick ==
    /\ \E c \in Conns : connState[c] = "open"
    /\ connState' = [c \in Conns |->
                       IF connState[c] = "open" /\ Dead(isAlive[c])
                       THEN "terminated" ELSE connState[c]]
    /\ isAlive' = [c \in Conns |->
                     IF connState[c] = "open" THEN FALSE ELSE isAlive[c]]
    /\ pongDue' = [c \in Conns |->
                     IF connState[c] = "open" /\ ~Dead(isAlive[c])
                     THEN TRUE ELSE pongDue[c]]
    /\ lastSent' = Nothing
    /\ UNCHANGED <<store, ttl, nextSession, connSession, connUser, clients, hs,
                   msgCount, leftTold, wvars>>

\* ws.on('pong'): the client answers the ping it was sent.
Pong(c) ==
    /\ connState[c] = "open"
    /\ pongDue[c]
    /\ isAlive' = [isAlive EXCEPT ![c] = TRUE]
    /\ pongDue' = [pongDue EXCEPT ![c] = FALSE]
    /\ lastSent' = Nothing
    /\ UNCHANGED <<store, ttl, nextSession, connState, connSession, connUser,
                   clients, hs, msgCount, leftTold, wvars>>

\* The 'close' event of a connection the heartbeat has terminated.
CloseTerminated == \E c \in Conns : connState[c] = "terminated" /\ Close(c)

\* Time passes: every key's expiry comes one tick closer; a key whose expiry
\* is reached is deleted.
Tick ==
    /\ \E s \in Sessions : ttl[s] > 0
    /\ ttl' = [s \in Sessions |-> IF ttl[s] > 0 THEN ttl[s] - 1 ELSE 0]
    /\ store' = [s \in Sessions |-> IF ttl[s] = 1 THEN NoSession ELSE store[s]]
    /\ lastSent' = Nothing
    /\ UNCHANGED <<nextSession, connState, connSession, connUser, clients, hs,
                   msgCount, leftTold, wvars, hvars>>

----------------------------------------------------------------------------
(* The gateway specification *)

InitGateway ==
    /\ store = [s \in Sessions |-> NoSession]
    /\ ttl = [s \in Sessions |-> 0]
    /\ nextSession = 1
    /\ connState = [c \in Conns |-> "open"]
    /\ connSession = [c \in Conns |-> NoSid]
    /\ connUser = [c \in Conns |-> NoUser]
    /\ clients = [s \in Sessions |-> {}]
    /\ hs = {}
    /\ msgCount = [joins |-> 0, events |-> 0, invalid |-> 0]
    /\ lastSent = Nothing
    /\ leftTold = [c \in Conns |-> {}]
    /\ isAlive = [c \in Conns |-> TRUE]
    /\ pongDue = [c \in Conns |-> FALSE]

\* The gateway specification follows one session: the first created.
CreateFirst(c, syncSettings) ==
    /\ nextSession = 1
    /\ SessionCreate(c, syncSettings)

NextGateway ==
    \/ \E c \in Conns : Close(c)
    \/ \E c \in Conns, ss \in CreateSettings : CreateFirst(c, ss)
    \/ \E c \in Conns : RecvJoin(c)
    \/ \E c \in Conns : RecvLeave(c)
    \/ \E c \in Conns : RecvLeaveNoUser(c)
    \/ \E c \in Conns : RecvMalformed(c)
    \/ \E c \in Conns : RecvInvalidJoin(c)
    \/ \E c \in Conns : RecvUpdateSettings(c)
    \/ \E c \in Conns : RecvPageChange(c)
    \/ \E c \in Conns : RecvScrollSync(c)
    \/ \E c \in Conns : RecvPushPage(c)
    \/ \E c \in Conns : RecvPushReference(c)
    \/ \E h \in hs : ContinueJoin(h)
    \/ \E h \in hs : ContinueLeave(h)
    \/ \E h \in hs : ContinueUpdate(h)
    \/ \E h \in hs : ContinuePushReference(h)
    \/ \E h \in hs : ContinueDisconnect(h)
    \/ Tick

----------------------------------------------------------------------------
(* Properties of the gateway *)

\* The step of the model is the continuation of handler h.
Continues(h) == h \in hs /\ hs' = hs \ {h}

\* One message to each open connection of the session's set other than the
\* sender, none to anyone else.
ToOthers(h) ==
    [c \in Conns |->
        IF c \in clients[h.sid] /\ c # h.conn /\ connState[c] = "open"
        THEN 1 ELSE 0]

\* C5: a page-change event on a session whose syncPage flag is false sends no
\* page:changed message to any connection; with syncPage true it sends exactly
\* one page:changed to each other open connection of the session's set and
\* none to the sender. The same for scroll-sync, syncScroll and scroll:synced.
C5_SyncGatedBroadcast ==
    [][\A h \in hs :
         (Continues(h) /\ h.type \in {"page-change", "scroll-sync"}
          /\ Exists(h.snap))
         => LET page == h.type = "page-change"
                flag == h.snap.syncSettings[IF page THEN "syncPage" ELSE "syncScroll"]
            IN  IF flag
                THEN lastSent' = [type |-> IF page THEN "page:changed"
                                           ELSE "scroll:synced",
                                  n |-> ToOthers(h)]
                ELSE lastSent' = Nothing]_vars

\* A page:changed message has just gone to another connection of a session
\* whose syncPage flag is true.
C5_Witness ==
    /\ lastSent.type = "page:changed"
    /\ \E c \in Conns : lastSent.n[c] = 1
    /\ \E s \in Sessions : Exists(store[s]) /\ store[s].syncSettings["syncPage"]

\* C6: a push-page event on an existing session sends page:pushed to every
\* other open connection of the session's set whatever the session's sync
\* flags are, and a push-reference event likewise sends reference:pushed.
C6_PushAlwaysBroadcast ==
    [][\A h \in hs :
         (Continues(h) /\ h.type \in {"push-page", "push-reference"}
          /\ Exists(h.snap))
         => lastSent' = [type |-> IF h.type = "push-page" THEN "page:pushed"
                                  ELSE "reference:pushed",
                         n |-> ToOthers(h)]]_vars

\* page:pushed has just gone to another connection of a session whose
\* syncPage flag is false.
C6_Witness ==
    /\ lastSent.type = "page:pushed"
    /\ \E c \in Conns : lastSent.n[c] = 1
    /\ \E s \in Sessions : Exists(store[s]) /\ ~store[s].syncSettings["syncPage"]

\* C7: when a joined connection closes, every remaining open connection of
\* its session receives exactly one session:left for its user over the whole
\* life of the connection, also when the connection sent an explicit leave
\* before closing: the close sends session:left to no connection that the
\* connection's own leave has already sent it to.
C7_OneLeftOverConnectionLife ==
    [][\A c \in Conns :
         (connState[c] = "open" /\ connState'[c] = "closed")
         => \A x \in Conns : lastSent'.n[x] > 0 => x \notin leftTold[c]]_vars

\* viewers holds no user twice
NoDuplicate(viewers) ==
    \A i, j \in 1..Len(viewers) : viewers[i] = viewers[j] => i = j

\* C8: addViewer is idempotent: a stored viewer list never holds a user
\* twice, and an addViewer whose session already lists the user changes no
\* field of the stored session.
C8_AddViewerIdempotent ==
    /\ [](\A s \in Sessions : NoDuplicate(store[s].viewers))
    /\ [][\A h \in hs :
            (Continues(h) /\ h.type = "join" /\ Exists(h.snap)
             /\ Includes(h.snap.viewers, h.user))
            => store' = store]_vars

\* A second addViewer for a user has read a session that lists the user, and
\* the stored session lists it.
C8_Witness ==
    \E h \in hs :
        /\ h.type = "join"
        /\ Exists(h.snap) /\ Includes(h.snap.viewers, h.user)
        /\ Includes(store[h.sid].viewers, h.user)

\* What handler h's mutation makes of a session.
Applied(h, session) ==
    CASE h.type = "join" ->
           IF Includes(session.viewers, h.user) THEN session
           ELSE [session EXCEPT !.viewers = Append(@, h.user)]
      [] h.type \in {"leave", "disconnect"} ->
           [session EXCEPT !.viewers = Without(@, h.user)]
      [] h.type = "update-settings" -> UpdatedSettings(session, h.partial)
      [] h.type = "scroll-sync" -> [session EXCEPT !.scrollPosition = h.pos]
      [] h.type \in {"page-change", "push-page"} ->
           [session EXCEPT !.currentPage = h.page]
      [] OTHER -> session

\* C9: mutations of one session are atomic per key: a mutation leaves in the
\* store its own change made to the session as stored just before it, so no
\* concurrent mutation's effect is lost or reverted.
C9_MutationsAtomicPerKey ==
    [][\A h \in hs :
         (Continues(h) /\ Exists(h.snap) /\ Exists(store[h.sid]))
         => store'[h.sid] = Applied(h, store[h.sid])]_vars

\* C10: the session TTL is sliding: every operation on an existing session,
\* reads included, resets the session's expiry to the full window, so when
\* the handler of an event on an existing session has run, the session's
\* expiry is a full window away.
C10_EveryOperationResetsExpiry ==
    [][\A h \in hs :
         (Continues(h) /\ Exists(h.snap) /\ Exists(store[h.sid]))
         => ttl'[h.sid] = SESSION_TTL]_vars

\* C11 (the claim as stated): a connection becomes Joined only when its join
\* succeeded: a join answered with an error event (the session does not
\* exist) leaves the connection's session id and user id unset as they were
\* and adds the connection to no connection set.
C11_BoundOnlyOnSuccessfulJoin ==
    [][\A h \in hs :
         (Continues(h) /\ h.type = "join" /\ ~Exists(h.snap))
         => /\ connSession'[h.conn] = connSession[h.conn]
            /\ connUser'[h.conn] = connUser[h.conn]
            /\ clients' = clients]_vars

\* C12 (the claim as stated): in every reachable gateway state each
\* connection is a member of at most one session's connection set, also
\* after the same connection has sent a join for a second session.
C12_AtMostOneSet ==
    \A c \in Conns : Cardinality({s \in Sessions : c \in clients[s]}) <= 1

\* C13 (the claim as stated): once a Joined connection's explicit leave for
\* its session has been handled, the connection is no longer in that
\* session's connection set (and so receives no later broadcast of it).
C13_LeaveRemovesFromSet ==
    [][\A h \in hs :
         (Continues(h) /\ h.type = "leave" /\ Exists(h.snap)
          /\ connSession[h.conn] = h.sid /\ h.conn \in clients[h.sid])
         => h.conn \notin clients'[h.sid]]_vars

\* C14 (the claim as stated): Closed is absorbing: a connection whose close
\* has been handled is in no session's connection set, also when one of its
\* messages was still being handled at the moment of the close.
C14_ClosedIsAbsorbing ==
    \A c \in Conns :
        connState[c] = "closed" => \A s \in Sessions : c \notin clients[s]

\* C15 (the claim as stated): one connection's inbound messages are processed
\* strictly in arrival order: the handler of a message performs no store
\* write and no broadcast while the handler of an earlier message of the same
\* connection has not finished.
C15_InArrivalOrder ==
    [][\A h \in hs :
         (Continues(h) /\ h.type # "disconnect")
         => ~\E g \in hs : /\ g.conn = h.conn
                           /\ g.type # "disconnect"
                           /\ g.rank < h.rank]_vars

\* C16 (the claim as stated): an inbound message with an unrecognized type,
\* unparsable JSON or a payload that fails schema validation (for any event
\* type, join included) results in an error event to the sending connection
\* only, and leaves the session store, every connection's binding and all
\* connection sets unchanged.
C16_InvalidMessageChangesNothing ==
    [][msgCount'.invalid > msgCount.invalid
         => /\ lastSent'.type = "error"
            /\ Cardinality({c \in Conns : lastSent'.n[c] > 0}) <= 1
            /\ UNCHANGED <<store, connSession, connUser, clients>>]_vars

\* An interval callback of the heartbeat runs in this step.
Beat ==
    \E c \in Conns :
        /\ connState[c] = "open"
        /\ (isAlive[c] /\ ~isAlive'[c]) \/ connState'[c] = "terminated"

JoinedTo(c, s) ==
    /\ connState[c] = "open"
    /\ connSession[c] = s
    /\ c \in clients[s]
    /\ connUser[c] # NoUser

\* C29 (the claim as stated): whenever no handler is in progress, every user
\* id that has at least one open connection Joined to a stored session is in
\* that session's stored viewer list, also when the same user id had a
\* second connection to the session that has disconnected or sent an
\* explicit leave.
C29_JoinedUsersAreViewers ==
    hs = {} =>
        \A c \in Conns, s \in Sessions :
            (JoinedTo(c, s) /\ Exists(store[s]))
            => Includes(store[s].viewers, connUser[c])

SessionEvents == {"page-change", "scroll-sync", "push-page", "push-reference",
                  "update-settings", "leave"}

\* C30 (the claim as stated): a page-change, scroll-sync, push-page,
\* push-reference, update-settings or leave event changes the stored state
\* of a session, or is broadcast to the session's connections, only if the
\* sending connection is currently Joined to that session: a connection that
\* never joined, or that is joined to another session, cannot change the
\* session or cause a message to be delivered to its participants.
C30_OnlyJoinedSendersAffectSession ==
    [][\A h \in hs :
         (/\ Continues(h) /\ h.type \in SessionEvents
          /\ \/ store'[h.sid] # store[h.sid]
             \/ lastSent'.type # "error" /\ \E c \in Conns : lastSent'.n[c] > 0)
         => connSession[h.conn] = h.sid /\ h.conn \in clients[h.sid]]_vars

\* A document store at rest, for the gateway specification.
IdleWorker ==
    /\ docContent = [d \in Docs |-> "pdfA"]
    /\ docStatus = [d \in Docs |-> "pending"]
    /\ docHash = [d \in Docs |-> NoHash]
    /\ docDupOf = [d \in Docs |-> NoDoc]
    /\ indexed = {}
    /\ indexSubmits = [d \in Docs |-> 0]
    /\ structuredRows = [d \in Docs |-> 0]
    /\ jobs = [j \in JobIds |-> NoJobRec]
    /\ waitq = <<>>
    /\ nextJob = 1
    /\ resets = [d \in Docs |-> 0]
    /\ runs = [w \in Workers |-> IdleRun]
    /\ failures = 0
    /\ logUp = TRUE
    /\ errorLogged = [j \in JobIds |-> FALSE]
    /\ InitLog

\* The gateway as constructed, beside a document store at rest.
InitGatewayRun == InitGateway /\ IdleWorker /\ RestCatalog /\ RestQueue

SpecGateway == InitGatewayRun /\ [][NextGateway]_vars

\* The gateway serving two sessions: creates, joins and closes only.
NextRooms ==
    \/ \E c \in Conns, ss \in CreateSettings : SessionCreate(c, ss)
    \/ \E c \in Conns : RecvJoin(c)
    \/ \E h \in hs : ContinueJoin(h)
    \/ \E c \in Conns : Close(c)
    \/ \E h \in hs : ContinueDisconnect(h)

SpecRooms == InitGatewayRun /\ [][NextRooms]_vars

\* The gateway with its heartbeat: one session, joins, pings, pongs, closes.
\* A terminated socket emits its 'close' event.
NextHeartbeat ==
    \/ \E c \in Conns, ss \in CreateSettings : CreateFirst(c, ss)
    \/ \E c \in Conns : RecvJoin(c)
    \/ \E h \in hs : ContinueJoin(h)
    \/ HeartbeatTick
    \/ \E c \in Conns : Pong(c)
    \/ \E c \in Conns : Close(c)
    \/ \E h \in hs : ContinueDisconnect(h)

SpecHeartbeat ==
    InitGatewayRun /\ [][NextHeartbeat]_vars /\ WF_vars(CloseTerminated)

\* The worker specification: the gateway at rest.
InitWorkerRun == InitWorker /\ InitGateway /\ RestCatalog /\ RestQueue

SpecWorker == InitWorkerRun /\ [][NextWorker]_vars

SpecWorkerLog == InitWorkerRun /\ [][NextWorkerLog]_vars

\* The deduplication service over its table, the rest of the program at rest.
InitCatalogRun == InitCatalog /\ IdleWorker /\ InitGateway /\ RestQueue

SpecFind == InitCatalogRun /\ [][NextFind]_vars

InitGroupRun == InitGroup /\ IdleWorker /\ InitGateway /\ RestQueue

SpecMerge == InitGroupRun /\ [][NextMerge]_vars

\* The queue's administration over a queue with history.
InitCleanRun == InitClean /\ InitGateway /\ RestCatalog

SpecClean == InitCleanRun /\ [][NextClean]_vars

\* The log service on its own: appends, reads and clears under two job ids.
SpecLog == InitWorkerRun /\ [][NextLog]_vars

====
